---- MODULE Spec2Model ----
(***************************************************************************)
(* Discovery/sync engine of the UN document pipeline                       *)
(* (src/src/un_docs_downloader/pipeline.py, downloader.py).                *)
(*                                                                         *)
(* A sync run (sync_all_patterns) loads the pattern configuration and the  *)
(* persisted state file, scans every pattern with sync_pattern (generate a *)
(* candidate symbol, probe it, download it on a hit, count misses), and    *)
(* rewrites the state file at the end.  The remote repository is a set of  *)
(* existing symbols; a probe of an existing symbol may still answer false  *)
(* (timeout, error status), a download may fail.                           *)
(*                                                                         *)
(* generate_symbols is also modelled as a generator a caller iterates      *)
(* itself (SpecGen), and the lineage resolver link_documents of            *)
(* mandate_pipeline.lineage as section 4.6 of the specification and        *)
(* tests/test_lineage.py describe it (SpecLink).                           *)
(***************************************************************************)
EXTENDS Integers, Sequences, FiniteSets, TLC

\* ---------------------------------------------------------------- bounds
\* Remote documents exist only at the first MaxSpan sequence numbers of a
\* pattern (counted from pattern.start).
MaxSpan == 2
\* Number of sync runs started in one behaviour.
MaxRuns == 2
\* Number of symbols a caller takes from a generate_symbols generator.
MaxEmit == 4
\* Number of link_documents calls in one behaviour.
MaxLinkRuns == 2

\* ------------------------------------------------------ program constants
\* pattern.get("start", 1)
DefaultStart == 1
\* max_consecutive_misses: int = 3
DefaultMaxMisses == 3

\* Values of --max-misses explored.
MissChoices == {2, DefaultMaxMisses}

\* The one run of the sequential program; a second, overlapping run exists
\* only in the overlapping-runs specification.
Runs == {1}
AllRuns == {1, 2}

\* ------------------------------------------------------------ Python dict
\* A dict is kept in insertion order: a sequence of [key, value] items.
DictHas(d, k) == \E i \in 1..Len(d) : d[i].key = k

DictIndex(d, k) == CHOOSE i \in 1..Len(d) : d[i].key = k

\* d.get(k, default)
DictGet(d, k, default) == IF DictHas(d, k) THEN d[DictIndex(d, k)].value ELSE default

\* d[k] = v
DictSet(d, k, v) ==
    IF DictHas(d, k)
    THEN [d EXCEPT ![DictIndex(d, k)] = [key |-> k, value |-> v]]
    ELSE Append(d, [key |-> k, value |-> v])

DictKeys(d) == {d[i].key : i \in 1..Len(d)}

\* ---------------------------------------------------------------- patterns
\* A template is a sequence of literal pieces and {placeholder}s.
Lit(s) == [ph |-> FALSE, text |-> s]
Ph(k) == [ph |-> TRUE, text |-> k]

\* A pattern definition as loaded from patterns.yaml.  start is <<>> when the
\* key is absent; vars are the remaining keys in declaration order.
ResolutionPattern ==
    [name |-> "resolutions",
     template |-> <<Lit("A/RES/"), Ph("session"), Lit("/"), Ph("number")>>,
     start |-> <<>>,
     vars |-> <<[key |-> "session", is_list |-> FALSE, value |-> <<"80">>]>>]

DraftPattern ==
    [name |-> "drafts",
     template |-> <<Lit("A/"), Ph("number"), Lit("/"), Ph("track")>>,
     start |-> <<2>>,
     vars |-> <<[key |-> "track", is_list |-> TRUE, value |-> <<"L", "M">>]>>]

\* A committee series: one list variable of three values before a scalar.
CommitteePattern ==
    [name |-> "committees",
     template |-> <<Lit("A/C."), Ph("committee"), Lit("/"), Ph("session"),
                    Lit("/L."), Ph("number")>>,
     start |-> <<>>,
     vars |-> <<[key |-> "committee", is_list |-> TRUE, value |-> <<"1", "2", "3">>],
                [key |-> "session", is_list |-> FALSE, value |-> <<"80">>]>>]

\* Two list variables, declared in the order track, body, used in the
\* template in the order body, track.
BodyPattern ==
    [name |-> "bodies",
     template |-> <<Ph("body"), Lit("/"), Ph("number"), Lit("/"), Ph("track")>>,
     start |-> <<3>>,
     vars |-> <<[key |-> "track", is_list |-> TRUE, value |-> <<"L", "M">>],
                [key |-> "body", is_list |-> TRUE, value |-> <<"A", "E">>]>>]

\* A list variable with no value.
EmptyListPattern ==
    [name |-> "empty",
     template |-> <<Lit("A/"), Ph("number"), Lit("/"), Ph("track")>>,
     start |-> <<>>,
     vars |-> <<[key |-> "track", is_list |-> TRUE, value |-> <<>>]>>]

\* The configurations explored: each pattern alone, and both in either order.
Configs ==
    { <<ResolutionPattern>>, <<DraftPattern>>,
      <<ResolutionPattern, DraftPattern>>, <<DraftPattern, ResolutionPattern>> }

\* pattern.get("start", 1)
PatternStart(pattern) == IF pattern.start = <<>> THEN DefaultStart ELSE pattern.start[1]

\* resume_pattern = pattern.copy(); resume_pattern["start"] = start_number
WithStart(pattern, n) == [pattern EXCEPT !.start = <<n>>]

\* ------------------------------------------------------- generate_symbols
IsListVar(v) == v.is_list
IsScalarVar(v) == ~v.is_list

\* list_vars / scalar_vars, in declaration order
list_vars(pattern) == SelectSeq(pattern.vars, IsListVar)
scalar_vars(pattern) == SelectSeq(pattern.vars, IsScalarVar)

\* Variant: the tuples with the first list varying fastest.
RECURSIVE product_FirstFastest(_)
product_FirstFastest(values) ==
    IF values = <<>> THEN << <<>> >>
    ELSE LET rest == product_FirstFastest(Tail(values))
             first == Head(values)
             Row(j) == [i \in 1..Len(first) |-> <<first[i]>> \o rest[j]]
             RECURSIVE Rows(_)
             Rows(j) == IF j > Len(rest) THEN <<>> ELSE Row(j) \o Rows(j + 1)
         IN Rows(1)

\* itertools.product(*values): the tuples in order, last list varying fastest
RECURSIVE product(_)
product(values) ==
    IF values = <<>> THEN << <<>> >>
    ELSE LET rest == product(Tail(values))
             first == Head(values)
             Row(i) == [j \in 1..Len(rest) |-> <<first[i]>> \o rest[j]]
             RECURSIVE Rows(_)
             Rows(i) == IF i > Len(first) THEN <<>> ELSE Row(i) \o Rows(i + 1)
         IN Rows(1)

\* The combos of one sequence number: product(*values) when the pattern has
\* list variables, the single empty combo otherwise.
Combos(pattern) ==
    LET lv == list_vars(pattern)
    IN product([i \in 1..Len(lv) |-> lv[i].value])

\* vars_dict = dict(zip(keys, combo)); update(scalar_vars); ["number"] = number
vars_dict(pattern, combo, number) ==
    LET lv == list_vars(pattern)
        sv == scalar_vars(pattern)
        d1 == [i \in 1..Len(lv) |-> [key |-> lv[i].key, value |-> combo[i]]]
        RECURSIVE Upd(_, _)
        Upd(d, i) == IF i > Len(sv) THEN d
                     ELSE Upd(DictSet(d, sv[i].key, sv[i].value[1]), i + 1)
    IN DictSet(Upd(d1, 1), "number", ToString(number))

\* template.format(**vars_dict)
RECURSIVE format(_, _)
format(template, d) ==
    IF template = <<>> THEN ""
    ELSE LET t == Head(template)
         IN (IF t.ph THEN DictGet(d, t.text, "") ELSE t.text) \o format(Tail(template), d)

\* Variant: the generator starts at the default whatever pattern.start is.
GenInit_DefaultStart(pattern) == [number |-> DefaultStart, combo |-> 1]

\* The generator object: the sequence number it is at and the position of
\* the next combo within product(*values) for that number.
GenInit(pattern) == [number |-> PatternStart(pattern), combo |-> 1]

\* The symbol the next next() call yields.
GenYield(pattern, g) ==
    format(pattern.template, vars_dict(pattern, Combos(pattern)[g.combo], g.number))

\* The generator after that yield: the next combo of the same number, or the
\* first combo of number + 1 once the product is exhausted.
GenAdvance(pattern, g) ==
    IF g.combo < Len(Combos(pattern))
    THEN [g EXCEPT !.combo = g.combo + 1]
    ELSE [number |-> g.number + 1, combo |-> 1]

\* Line 65: while count is None or generated < count (count is <<>> for None)
WhileCond(count, generated) == count = <<>> \/ generated < count[1]

\* Variant: the limit is only looked at between sequence numbers.
ForGuard_Never(count, generated) == FALSE

\* Line 72: if count is not None and generated >= count: return
ForGuard(count, generated) == count # <<>> /\ generated >= count[1]

\* What a next() call on a suspended generator does, from where the
\* generator stands (at the while test when it is before the first combo of a
\* number, inside the for loop otherwise) to its next yield: "return" when
\* the generator finishes, "yield" when it yields GenYield, and "diverge"
\* when the while loop runs on with no yield, the product being empty (the
\* for loop has no iteration, generated never changes, number grows for ever).
GenResume(pattern, count, generated, g) ==
    IF g.combo = 1
    THEN IF ~WhileCond(count, generated) THEN "return"
         ELSE IF list_vars(pattern) = <<>> THEN "yield"
         ELSE IF Len(Combos(pattern)) = 0 THEN "diverge"
         ELSE IF ForGuard(count, generated) THEN "return"
         ELSE "yield"
    ELSE IF ForGuard(count, generated) THEN "return" ELSE "yield"

\* Every symbol the generator emits at one sequence number.
SymbolsAt(pattern, number) ==
    {format(pattern.template, vars_dict(pattern, Combos(pattern)[c], number)) :
        c \in 1..Len(Combos(pattern))}

\* --------------------------------------------------------- document_exists
\* What requests.head can produce: a response (status, Content-Type header,
\* "" when the header is missing) or a requests.RequestException.
Response(status, ct) == [raised |-> FALSE, status |-> status, content_type |-> ct]
RequestException == [raised |-> TRUE, status |-> 0, content_type |-> ""]
\* No request has been made yet.
NoResponse == [raised |-> FALSE, status |-> 0, content_type |-> ""]

\* content_type.lower()
lower(ct) == IF ct = "Application/PDF" THEN "application/pdf" ELSE ct

\* "pdf" in s
contains_pdf(s) == s \in {"application/pdf"}

\* Variant: the status of the response is not looked at.
document_exists_AnyStatus(resp) ==
    IF resp.raised THEN FALSE
    ELSE contains_pdf(lower(resp.content_type))

document_exists(resp) ==
    IF resp.raised THEN FALSE
    ELSE IF resp.status = 200 THEN contains_pdf(lower(resp.content_type))
    ELSE FALSE

\* The answers the remote repository can give for a symbol: an existing
\* document is served as a PDF, or, when requests can fail, the request ends
\* in an error status, an unresolved redirect or an exception (timeout,
\* connection failure); a missing one is never served as a PDF.
Responses(exists, failing) ==
    IF exists
    THEN {Response(200, "application/pdf"), Response(200, "Application/PDF")}
         \cup (IF failing
               THEN {Response(503, "text/html"), Response(302, "application/pdf"),
                     RequestException}
               ELSE {})
    ELSE {Response(404, "text/html"), Response(200, "text/html"), Response(200, "")}
         \cup (IF failing THEN {RequestException} ELSE {})

\* -------------------------------------------------------------- state.json
\* The text json.dump writes, as its sequence of pieces: the opening brace,
\* one piece per pattern entry (insertion order), last_sync, the closing brace.
EmptyState == [patterns |-> <<>>, last_sync |-> <<>>]

json_dump(st) ==
    << [tok |-> "{", key |-> "", num |-> 0] >>
    \o [i \in 1..Len(st.patterns) |->
          [tok |-> "pattern", key |-> st.patterns[i].key,
           num |-> st.patterns[i].value.highest_found]]
    \o [i \in 1..Len(st.last_sync) |->
          [tok |-> "last_sync", key |-> "", num |-> st.last_sync[i]]]
    \o << [tok |-> "}", key |-> "", num |-> 0] >>

\* json.load succeeds only on a complete document.
json_valid(text) ==
    /\ Len(text) >= 2
    /\ text[1].tok = "{"
    /\ text[Len(text)].tok = "}"

IsPatternTok(t) == t.tok = "pattern"
IsLastSyncTok(t) == t.tok = "last_sync"

json_load(text) ==
    LET ps == SelectSeq(text, IsPatternTok)
        ls == SelectSeq(text, IsLastSyncTok)
    IN [patterns |-> [i \in 1..Len(ps) |->
                        [key |-> ps[i].key, value |-> [highest_found |-> ps[i].num]]],
        last_sync |-> [i \in 1..Len(ls) |-> ls[i].num]]

NoFile == [exists |-> FALSE, text |-> <<>>]
FileWith(text) == [exists |-> TRUE, text |-> text]

\* load_sync_state can return (the file is absent or parses)
CanLoad(file) == ~file.exists \/ json_valid(file.text)

load_sync_state(file) == IF ~file.exists THEN EmptyState ELSE json_load(file.text)

\* -------------------------------------------------- get_start_number et al.
\* state.get("patterns", {}).get(pattern_name, {}).get("highest_found")
HasHighest(st, name) == DictHas(st.patterns, name)
HighestOf(st, name) == DictGet(st.patterns, name, [highest_found |-> 0]).highest_found

\* Variant: the scan resumes at highest_found itself.
get_start_number_NoIncrement(pattern, st) ==
    IF HasHighest(st, pattern.name)
    THEN HighestOf(st, pattern.name)
    ELSE PatternStart(pattern)

\* Variant: the scan resumes after the entry most recently put in the state,
\* whichever pattern it belongs to.
get_start_number_LastEntry(pattern, st) ==
    IF st.patterns # <<>>
    THEN st.patterns[Len(st.patterns)].value.highest_found + 1
    ELSE PatternStart(pattern)

\* Variant: the scan always starts over at pattern.start.
get_start_number_FromStart(pattern, st) == PatternStart(pattern)

get_start_number(pattern, st) ==
    IF HasHighest(st, pattern.name)
    THEN HighestOf(st, pattern.name) + 1
    ELSE PatternStart(pattern)

\* Variant: without an entry highest_found is initialised to 0.
InitialHighest_Zero(pattern, st) ==
    IF HasHighest(st, pattern.name)
    THEN HighestOf(st, pattern.name)
    ELSE 0

\* Variant: highest_found is initialised from pattern.start alone.
InitialHighest_FromStart(pattern, st) == PatternStart(pattern) - 1

\* state...get("highest_found", pattern.get("start", 1) - 1)
InitialHighest(pattern, st) ==
    IF HasHighest(st, pattern.name)
    THEN HighestOf(st, pattern.name)
    ELSE PatternStart(pattern) - 1

\* Variant: the scan stops one miss early.
ReachedLimit_Early(misses, limit) == misses >= limit - 1

\* Variant: the scan stops one miss late.
ReachedLimit_Late(misses, limit) == misses > limit

\* if consecutive_misses >= max_consecutive_misses
ReachedLimit(misses, limit) == misses >= limit

\* The symbols that can exist remotely: those of the first MaxSpan sequence
\* numbers of each pattern.
Universe ==
    UNION { SymbolsAt(pat, PatternStart(pat) + k) :
              pat \in {ResolutionPattern, DraftPattern}, k \in 0..(MaxSpan - 1) }

\* ------------------------------------------------------------------- state
VARIABLES
    patterns,               \* load_patterns(): the configured pattern list
    remote,                 \* the symbols that exist in the remote repository
    flaky,                  \* whether requests to the repository can fail
    max_consecutive_misses, \* the --max-misses argument of the runs
    state_file,             \* data_dir/state.json
    clock,                  \* datetime.now(), as a counter
    started,                \* number of runs started so far
    pc,                     \* per run: position in sync_all_patterns
    state,                  \* per run: the in-memory state dict
    loaded,                 \* per run: the state as load_sync_state returned it
    results,                \* per run: the results dict
    returned,               \* per run: what sync_all_patterns returned, if it has
    idx,                    \* per run: position of the for loop over patterns
    start_number,           \* per run: sync_pattern local
    new_docs,               \* per run: sync_pattern local
    highest_found,          \* per run: sync_pattern local
    consecutive_misses,     \* per run: sync_pattern local
    current_number,         \* per run: sync_pattern local
    gen,                    \* per run: the generate_symbols generator
    symbol,                 \* per run: the loop variable of sync_pattern
    number,                 \* per run: the sequence number symbol was made of
    downloaded,             \* per run: symbols download_document was called for
    trace,                  \* per run: probes of the current pattern scan
    response,               \* per run: what requests.head produced last
    disc,                   \* per run: a running discover_documents generator
    writes,                 \* per run: calls of save_sync_state in this run
    gens,                   \* generate_symbols generators a caller iterates itself
    documents,              \* the document records link_documents works on
    link                    \* link_documents: its position, arguments and calls

vars == <<patterns, remote, flaky, max_consecutive_misses, state_file, clock, started,
          pc, state, loaded, results, returned, idx, start_number, new_docs,
          highest_found, consecutive_misses, current_number, gen, symbol,
          number, downloaded, trace, response, disc, writes, gens,
          documents, link>>

config == <<patterns, max_consecutive_misses>>
repo == <<remote, flaky>>
lineage == <<documents, link>>
locals == <<start_number, new_docs, highest_found, consecutive_misses,
            current_number, gen, symbol, number, downloaded, trace, response>>

\* ----------------------------------------------------------------- lineage
\* The lineage resolver (mandate_pipeline.lineage) as the specification and
\* the tests of tests/test_lineage.py describe it.
\* Symbols of the tests: adopted resolutions, draft proposals, a meeting
\* record and a report.
ResolutionSymbols == {"A/RES/80/142", "A/RES/80/166"}
ProposalSymbols == {"A/C.2/80/L.35/Rev.1", "A/80/L.99", "A/80/L.1"}
OtherSymbols == {"A/80/PV.64", "A/80/555"}

\* SymbolClassifier
is_resolution(sym) == sym \in ResolutionSymbols
is_proposal(sym) == sym \in ProposalSymbols

\* link_confidence, in hundredths: 1.0 for authoritative metadata, a value
\* below 1.0 for an in-text reference.
MetadataConfidence == 100
ReferenceConfidence == 80

\* A DocumentRecord as ingested: no lineage field set.
Doc(sym, refs) ==
    [symbol |-> sym, symbol_references |-> refs, link_method |-> "none",
     link_confidence |-> 0, base_proposal_symbol |-> <<>>,
     linked_proposal_symbols |-> <<>>, linked_resolution_symbol |-> <<>>]

\* The document collections explored.
Collections ==
    { << Doc("A/RES/80/142", <<>>) >>,
      << Doc("A/RES/80/142", <<"A/80/L.99">>) >>,
      << Doc("A/RES/80/142", <<>>), Doc("A/C.2/80/L.35/Rev.1", <<>>) >>,
      << Doc("A/80/L.99", <<>>), Doc("A/RES/80/166", <<"A/80/PV.64", "A/80/L.99", "A/80/L.1">>) >>,
      << Doc("A/RES/80/142", <<"A/80/L.99">>), Doc("A/C.2/80/L.35/Rev.1", <<>>),
         Doc("A/80/L.99", <<>>) >>,
      << Doc("A/RES/80/142", <<"A/80/L.99">>), Doc("A/RES/80/166", <<"A/80/L.99">>),
         Doc("A/80/L.99", <<>>) >>,
      << Doc("A/RES/80/142", <<>>), Doc("A/RES/80/166", <<"A/80/PV.64">>),
         Doc("A/C.2/80/L.35/Rev.1", <<>>) >>,
      << [Doc("A/RES/80/142", <<"A/80/L.99">>)
             EXCEPT !.linked_proposal_symbols = <<"A/80/L.1">>],
         Doc("A/80/L.99", <<>>) >>,
      << [Doc("A/RES/80/142", <<"A/80/L.99">>)
             EXCEPT !.base_proposal_symbol = <<"A/80/L.1">>],
         Doc("A/RES/80/166", <<>>), Doc("A/80/L.99", <<>>) >> }

\* What the request to the bibliographic service can end in: a failure, a
\* document that does not parse, a collection without a record for the
\* symbol, or the record of the symbol with its cross-referenced symbols.
Failed(kind) == [kind |-> kind, related |-> <<>>]
Record(related) == [kind |-> "record", related |-> related]
UndlOutcomes ==
    { Failed("connection_error"), Failed("timeout"), Failed("http_error"),
      Failed("malformed_xml"), Failed("no_record"),
      Record(<<"A/80/PV.64">>),
      Record(<<"A/C.2/80/L.35/Rev.1", "A/80/PV.64", "A/80/555">>),
      Record(<<"A/80/L.1", "A/80/L.99">>) }

\* Variant: a collection without a record for the symbol gives an empty
\* metadata instead of absent.
fetch_undl_metadata_EmptyRecord(outcome, sym) ==
    IF outcome.kind \notin {"record", "no_record"} THEN <<>>
    ELSE LET drafts == SelectSeq(outcome.related, is_proposal)
         IN << [symbol |-> sym,
                related_symbols |-> outcome.related,
                draft_symbols |-> drafts,
                base_proposal |-> IF drafts = <<>> THEN <<>> ELSE <<drafts[1]>>] >>

\* fetch_undl_metadata(symbol): <<>> for absent, else the one UndlMetadata.
fetch_undl_metadata(outcome, sym) ==
    IF outcome.kind # "record" THEN <<>>
    ELSE LET drafts == SelectSeq(outcome.related, is_proposal)
         IN << [symbol |-> sym,
                related_symbols |-> outcome.related,
                draft_symbols |-> drafts,
                base_proposal |-> IF drafts = <<>> THEN <<>> ELSE <<drafts[1]>>] >>

\* The record of the local collection with a symbol, if there is one.
IsLocal(docs, sym) == \E j \in 1..Len(docs) : docs[j].symbol = sym

\* seq with the members of more it lacks appended (an ordered set).
RECURSIVE AddAll(_, _)
AddAll(seq, more) ==
    IF more = <<>> THEN seq
    ELSE AddAll(IF \E k \in 1..Len(seq) : seq[k] = Head(more)
                THEN seq ELSE Append(seq, Head(more)),
                Tail(more))

\* The drafts held in the local collection, in their order.
Held(docs, drafts) == SelectSeq(drafts, LAMBDA d : IsLocal(docs, d))

\* Variant: the proposal gets the method of the link but not its confidence.
LinkRecords_MethodOnly(docs, i, base, held, method, confidence) ==
    [j \in 1..Len(docs) |->
        IF j = i
        THEN [docs[j] EXCEPT !.base_proposal_symbol = <<base>>,
                             !.link_method = method,
                             !.link_confidence = confidence,
                             !.linked_proposal_symbols = AddAll(@, held)]
        ELSE IF \E k \in 1..Len(held) : held[k] = docs[j].symbol
        THEN [docs[j] EXCEPT !.linked_resolution_symbol = <<docs[i].symbol>>,
                             !.link_method = method]
        ELSE docs[j]]

\* The records after a link of resolution docs[i] was written in place: the
\* base proposal, method and confidence on the resolution, and for each of
\* the held drafts the proposal in linked_proposal_symbols and the
\* back-reference on the proposal's record.
LinkRecords(docs, i, base, held, method, confidence) ==
    [j \in 1..Len(docs) |->
        IF j = i
        THEN [docs[j] EXCEPT !.base_proposal_symbol = <<base>>,
                             !.link_method = method,
                             !.link_confidence = confidence,
                             !.linked_proposal_symbols = AddAll(@, held)]
        ELSE IF \E k \in 1..Len(held) : held[k] = docs[j].symbol
        THEN [docs[j] EXCEPT !.linked_resolution_symbol = <<docs[i].symbol>>,
                             !.link_method = method,
                             !.link_confidence = confidence]
        ELSE docs[j]]

\* Variant: a link none of whose drafts is held in the collection is dropped.
RecordLink_HeldOnly(docs, i, base, drafts, method, confidence) ==
    IF Held(docs, drafts) = <<>> THEN docs
    ELSE LinkRecords(docs, i, base, Held(docs, drafts), method, confidence)

\* A link found for resolution docs[i]: base_proposal_symbol is recorded
\* also when none of the drafts is held in the collection.
RecordLink(docs, i, base, drafts, method, confidence) ==
    LinkRecords(docs, i, base, Held(docs, drafts), method, confidence)

\* Variant: the metadata service is asked whatever the flag.
Pass0Enabled_Always(flag) == TRUE

\* The global toggle: Pass 0 runs only with use_undl_metadata.
Pass0Enabled(flag) == flag

\* Variant: only a resolution with linked proposals counts as linked.
AlreadyLinked_LinkedOnly(doc) == doc.linked_proposal_symbols # <<>>

\* The resolution already has an entry in linked_proposal_symbols or a
\* base_proposal_symbol.
AlreadyLinked(doc) ==
    doc.linked_proposal_symbols # <<>> \/ doc.base_proposal_symbol # <<>>

\* Variant: the metadata never pre-empts Pass 1.
Pass0Links_Never(md) == FALSE

\* Pass 0 establishes a link: the metadata is present with a base proposal.
Pass0Links(md) == md # <<>> /\ md[1].base_proposal # <<>>

\* Variant: the last proposal among the references is taken.
FirstProposal_Last(refs) ==
    LET props == SelectSeq(refs, is_proposal)
    IN IF props = <<>> THEN <<>> ELSE <<props[Len(props)]>>

\* The first of the symbol_references classified as a proposal, if any.
FirstProposal(refs) ==
    LET props == SelectSeq(refs, is_proposal)
    IN IF props = <<>> THEN <<>> ELSE <<props[1]>>

\* The index of the first resolution record at or after position i, or
\* Len(docs) + 1.
RECURSIVE NextResolution(_, _)
NextResolution(docs, i) ==
    IF i > Len(docs) \/ is_resolution(docs[i].symbol) THEN i
    ELSE NextResolution(docs, i + 1)

\* link_documents is not running and has not run.
NoLink ==
    [pc |-> "idle", i |-> 0, use_undl_metadata |-> TRUE, runs |-> 0,
     initial |-> <<>>, before |-> <<>>, calls |-> <<>>, prev |-> <<>>]

NoLineage == documents = <<>> /\ link = NoLink

\* The generators a caller holds, and values of their arguments.
GenIds == {1, 2}
GenPatterns == {ResolutionPattern, DraftPattern, CommitteePattern, BodyPattern,
                EmptyListPattern}
GenStarts == {<<>>, <<2>>, <<5>>, <<6>>}
GenCounts == {<<>>, <<0>>, <<1>>, <<3>>}

\* No generator has been made.
NoGenerator ==
    [pc |-> "idle", pattern |-> ResolutionPattern, count |-> <<>>, generated |-> 0,
     g |-> [number |-> 0, combo |-> 1], out |-> <<>>]

\* No discover_documents generator is running.
NoDiscovery ==
    [pc |-> "idle", idx |-> 0, gen |-> [number |-> 0, combo |-> 1],
     consecutive_misses |-> 0, yielded |-> <<>>, trace |-> <<>>,
     response |-> NoResponse]

\* The program before its first run: no state file, nothing running.
InitProgramWith(file) ==
    /\ state_file = file
    /\ clock = 1
    /\ started = 0
    /\ pc = [r \in AllRuns |-> "idle"]
    /\ state = [r \in AllRuns |-> EmptyState]
    /\ loaded = [r \in AllRuns |-> EmptyState]
    /\ results = [r \in AllRuns |-> <<>>]
    /\ returned = [r \in AllRuns |-> <<>>]
    /\ idx = [r \in AllRuns |-> 1]
    /\ start_number = [r \in AllRuns |-> 0]
    /\ new_docs = [r \in AllRuns |-> <<>>]
    /\ highest_found = [r \in AllRuns |-> 0]
    /\ consecutive_misses = [r \in AllRuns |-> 0]
    /\ current_number = [r \in AllRuns |-> 0]
    /\ gen = [r \in AllRuns |-> [number |-> 0, combo |-> 1]]
    /\ symbol = [r \in AllRuns |-> ""]
    /\ number = [r \in AllRuns |-> 0]
    /\ downloaded = [r \in AllRuns |-> <<>>]
    /\ trace = [r \in AllRuns |-> <<>>]
    /\ response = [r \in AllRuns |-> NoResponse]
    /\ disc = [r \in AllRuns |-> NoDiscovery]
    /\ writes = [r \in AllRuns |-> 0]
    /\ gens = [i \in GenIds |-> NoGenerator]

\* A first run: no state file yet.
InitProgram == InitProgramWith(NoFile)

\* Every document of the span exists and any request can fail: each probe
\* within the span can answer either way, so the runs see every sequence of
\* probe outcomes.
Init ==
    /\ patterns \in Configs
    /\ remote = Universe
    /\ flaky = TRUE
    /\ max_consecutive_misses \in MissChoices
    /\ InitProgram
    /\ NoLineage

\* A fixed remote set, any one, whose probes are all answered by the set.
InitSteady ==
    /\ patterns \in Configs
    /\ remote \in SUBSET Universe
    /\ flaky = FALSE
    /\ max_consecutive_misses \in MissChoices
    /\ InitProgram
    /\ NoLineage

\* sync_pattern has returned or raised: its locals are gone.
DropLocals(r) ==
    /\ start_number' = [start_number EXCEPT ![r] = 0]
    /\ new_docs' = [new_docs EXCEPT ![r] = <<>>]
    /\ highest_found' = [highest_found EXCEPT ![r] = 0]
    /\ consecutive_misses' = [consecutive_misses EXCEPT ![r] = 0]
    /\ current_number' = [current_number EXCEPT ![r] = 0]
    /\ gen' = [gen EXCEPT ![r] = [number |-> 0, combo |-> 1]]
    /\ symbol' = [symbol EXCEPT ![r] = ""]
    /\ number' = [number EXCEPT ![r] = 0]
    /\ downloaded' = [downloaded EXCEPT ![r] = <<>>]
    /\ trace' = [trace EXCEPT ![r] = <<>>]
    /\ response' = [response EXCEPT ![r] = NoResponse]

\* The pattern the for loop of sync_all_patterns is at.
pattern(r) == patterns[idx[r]]

\* resume_pattern of the running sync_pattern
resume_pattern(r) == WithStart(pattern(r), start_number[r])

\* ------------------------------------------------------- sync_all_patterns
\* Lines 269-273: load the configuration and the state, results = {}.
StartRun(r) ==
    /\ pc[r] \in {"idle", "done", "failed", "aborted"}
    /\ disc[r].pc = "idle"
    /\ started < MaxRuns
    /\ started' = started + 1
    /\ IF CanLoad(state_file)
       THEN /\ pc' = [pc EXCEPT ![r] = "loop"]
            /\ state' = [state EXCEPT ![r] = load_sync_state(state_file)]
            /\ loaded' = [loaded EXCEPT ![r] = load_sync_state(state_file)]
       ELSE \* json.load raises
            /\ pc' = [pc EXCEPT ![r] = "failed"]
            /\ UNCHANGED <<state, loaded>>
    /\ results' = [results EXCEPT ![r] = <<>>]
    /\ returned' = [returned EXCEPT ![r] = <<>>]
    /\ idx' = [idx EXCEPT ![r] = 1]
    /\ writes' = [writes EXCEPT ![r] = 0]
    /\ UNCHANGED <<config, repo, lineage, gens, disc, state_file, clock, locals>>

\* Line 275 and sync_pattern lines 218-234: the next pattern of the loop is
\* taken and its scan set up.
EnterPattern(r) ==
    /\ pc[r] = "loop"
    /\ idx[r] <= Len(patterns)
    /\ pc' = [pc EXCEPT ![r] = "scan"]
    /\ start_number' = [start_number EXCEPT ![r] = get_start_number(pattern(r), state[r])]
    /\ new_docs' = [new_docs EXCEPT ![r] = <<>>]
    /\ highest_found' = [highest_found EXCEPT ![r] = InitialHighest(pattern(r), state[r])]
    /\ consecutive_misses' = [consecutive_misses EXCEPT ![r] = 0]
    /\ current_number' = [current_number EXCEPT ![r] = get_start_number(pattern(r), state[r])]
    /\ gen' = [gen EXCEPT ![r] =
                 GenInit(WithStart(pattern(r), get_start_number(pattern(r), state[r])))]
    /\ downloaded' = [downloaded EXCEPT ![r] = <<>>]
    /\ trace' = [trace EXCEPT ![r] = <<>>]
    /\ response' = [response EXCEPT ![r] = NoResponse]
    /\ UNCHANGED <<config, repo, lineage, gens, disc, state_file, clock, started, state, loaded,
                   results, returned, idx, symbol, number, writes>>

\* Lines 236-238 and 243-248: the generator yields the next symbol and it is
\* probed.  A hit resets the miss counter and goes on to the download; a
\* miss counts, and either breaks out of the loop or moves to the next symbol.
Probe(r) ==
    /\ pc[r] = "scan"
    /\ GenResume(resume_pattern(r), <<>>, 0, gen[r]) = "yield"
    /\ LET sym == GenYield(resume_pattern(r), gen[r])
       IN \E resp \in Responses(sym \in remote, flaky) :
            LET hit == document_exists(resp)
            IN /\ symbol' = [symbol EXCEPT ![r] = sym]
               /\ response' = [response EXCEPT ![r] = resp]
               /\ number' = [number EXCEPT ![r] = gen[r].number]
               /\ gen' = [gen EXCEPT ![r] = GenAdvance(resume_pattern(r), gen[r])]
               /\ trace' = [trace EXCEPT ![r] =
                              Append(@, [symbol |-> sym, number |-> gen[r].number,
                                         hit |-> hit])]
               /\ IF hit
                  THEN /\ consecutive_misses' = [consecutive_misses EXCEPT ![r] = 0]
                       /\ pc' = [pc EXCEPT ![r] = "download"]
                       /\ UNCHANGED current_number
                  ELSE /\ consecutive_misses' = [consecutive_misses EXCEPT ![r] = @ + 1]
                       /\ IF ReachedLimit(consecutive_misses[r] + 1, max_consecutive_misses)
                          THEN /\ pc' = [pc EXCEPT ![r] = "stopped"]
                               /\ UNCHANGED current_number
                          ELSE /\ pc' = [pc EXCEPT ![r] = "scan"]
                               /\ current_number' = [current_number EXCEPT ![r] = @ + 1]
    /\ UNCHANGED <<config, repo, lineage, gens, disc, state_file, clock, started, state, loaded,
                   results, returned, idx, start_number, new_docs, highest_found,
                   downloaded, writes>>

\* Variant: the downloaded symbol is not put in the list.
Download_Unrecorded(r) ==
    /\ pc[r] = "download"
    /\ pc' = [pc EXCEPT ![r] = "scan"]
    /\ downloaded' = [downloaded EXCEPT ![r] = Append(@, symbol[r])]
    /\ highest_found' = [highest_found EXCEPT ![r] = current_number[r]]
    /\ current_number' = [current_number EXCEPT ![r] = @ + 1]
    /\ UNCHANGED <<config, repo, lineage, gens, disc, state_file, clock, started, state, loaded,
                   results, returned, idx, start_number, new_docs, consecutive_misses, gen,
                   symbol, number, trace, response, writes>>

\* Lines 240-242 and 248: download_document returns; the symbol is recorded
\* and the cursor becomes the new highest_found.
Download(r) ==
    /\ pc[r] = "download"
    /\ pc' = [pc EXCEPT ![r] = "scan"]
    /\ downloaded' = [downloaded EXCEPT ![r] = Append(@, symbol[r])]
    /\ new_docs' = [new_docs EXCEPT ![r] = Append(@, symbol[r])]
    /\ highest_found' = [highest_found EXCEPT ![r] = current_number[r]]
    /\ current_number' = [current_number EXCEPT ![r] = @ + 1]
    /\ UNCHANGED <<config, repo, lineage, gens, disc, state_file, clock, started, state, loaded,
                   results, returned, idx, start_number, consecutive_misses, gen, symbol,
                   number, trace, response, writes>>

\* Line 240 with downloader.py lines 24-25: requests.get or raise_for_status
\* raises; the exception leaves sync_pattern and sync_all_patterns.
DownloadFails(r) ==
    /\ pc[r] = "download"
    /\ pc' = [pc EXCEPT ![r] = "failed"]
    /\ DropLocals(r)
    /\ UNCHANGED <<config, repo, lineage, gens, disc, state_file, clock, started, state,
                   loaded, results, returned, idx, writes>>

\* Variant: the state file is rewritten after each pattern.
LeavePattern_Saves(r) ==
    /\ pc[r] = "stopped"
    /\ pc' = [pc EXCEPT ![r] = "loop"]
    /\ state' = [state EXCEPT ![r].patterns =
                   DictSet(@, pattern(r).name, [highest_found |-> highest_found[r]])]
    /\ results' = [results EXCEPT ![r] = DictSet(@, pattern(r).name, new_docs[r])]
    /\ idx' = [idx EXCEPT ![r] = @ + 1]
    /\ state_file' = FileWith(json_dump(state'[r]))
    /\ writes' = [writes EXCEPT ![r] = @ + 1]
    /\ DropLocals(r)
    /\ UNCHANGED <<config, repo, lineage, gens, disc, clock, started, loaded, returned>>

\* Variant: the state to save is built up from the configured patterns alone.
LeavePattern_Fresh(r) ==
    /\ pc[r] = "stopped"
    /\ pc' = [pc EXCEPT ![r] = "loop"]
    /\ state' = [state EXCEPT ![r].patterns =
                   DictSet(IF idx[r] = 1 THEN <<>> ELSE @,
                           pattern(r).name, [highest_found |-> highest_found[r]])]
    /\ results' = [results EXCEPT ![r] = DictSet(@, pattern(r).name, new_docs[r])]
    /\ idx' = [idx EXCEPT ![r] = @ + 1]
    /\ DropLocals(r)
    /\ UNCHANGED <<config, repo, lineage, gens, disc, state_file, clock, started, loaded,
                   returned, writes>>

\* Line 250 and lines 276-285: sync_pattern returns; the state entry and the
\* results of the pattern are set.
LeavePattern(r) ==
    /\ pc[r] = "stopped"
    /\ pc' = [pc EXCEPT ![r] = "loop"]
    /\ state' = [state EXCEPT ![r].patterns =
                   DictSet(@, pattern(r).name, [highest_found |-> highest_found[r]])]
    /\ results' = [results EXCEPT ![r] = DictSet(@, pattern(r).name, new_docs[r])]
    /\ idx' = [idx EXCEPT ![r] = @ + 1]
    /\ DropLocals(r)
    /\ UNCHANGED <<config, repo, lineage, gens, disc, state_file, clock, started, loaded,
                   returned, writes>>

\* Lines 288-289 and save_sync_state lines 172-175: last_sync is set and
\* open(state_path, "w") creates or truncates the file.
SaveOpen(r) ==
    /\ pc[r] = "loop"
    /\ idx[r] > Len(patterns)
    /\ pc' = [pc EXCEPT ![r] = "writing"]
    /\ state' = [state EXCEPT ![r].last_sync = <<clock>>]
    /\ clock' = clock + 1
    /\ state_file' = FileWith(<<>>)
    /\ writes' = [writes EXCEPT ![r] = @ + 1]
    /\ UNCHANGED <<config, repo, lineage, gens, disc, started, loaded, results, returned, idx, locals>>

\* Line 176 and line 291: json.dump writes the document, the file is closed
\* and the results are returned.
SaveDump(r) ==
    /\ pc[r] = "writing"
    /\ pc' = [pc EXCEPT ![r] = "done"]
    /\ state_file' = FileWith(json_dump(state[r]))
    /\ returned' = [returned EXCEPT ![r] = <<results[r]>>]
    /\ UNCHANGED <<config, repo, lineage, gens, disc, clock, started, state, loaded,
                   results, idx, locals, writes>>

\* The flushed part of an interrupted json.dump: any proper prefix.
Prefixes(text) == {SubSeq(text, 1, n) : n \in 0..(Len(text) - 1)}

\* Variant: the failure of the write is swallowed and the results returned.
SaveFails_Swallowed(r) ==
    /\ \/ /\ pc[r] = "loop"
          /\ idx[r] > Len(patterns)
          /\ state' = [state EXCEPT ![r].last_sync = <<clock>>]
          /\ clock' = clock + 1
          /\ writes' = [writes EXCEPT ![r] = @ + 1]
          /\ UNCHANGED state_file
       \/ /\ pc[r] = "writing"
          /\ state_file' \in {FileWith(t) : t \in Prefixes(json_dump(state[r]))}
          /\ UNCHANGED <<state, clock, writes>>
    /\ pc' = [pc EXCEPT ![r] = "done"]
    /\ returned' = [returned EXCEPT ![r] = <<results[r]>>]
    /\ UNCHANGED <<config, repo, lineage, gens, disc, started, loaded, results, idx, locals>>

\* Line 289 with save_sync_state lines 173-176 raising: mkdir or open fails
\* and the file is as it was, or json.dump fails midway (disk full) and the
\* file keeps what had reached it.  The exception leaves sync_all_patterns.
SaveFails(r) ==
    /\ \/ /\ pc[r] = "loop"
          /\ idx[r] > Len(patterns)
          /\ state' = [state EXCEPT ![r].last_sync = <<clock>>]
          /\ clock' = clock + 1
          /\ writes' = [writes EXCEPT ![r] = @ + 1]
          /\ UNCHANGED state_file
       \/ /\ pc[r] = "writing"
          /\ state_file' \in {FileWith(t) : t \in Prefixes(json_dump(state[r]))}
          /\ UNCHANGED <<state, clock, writes>>
    /\ pc' = [pc EXCEPT ![r] = "failed"]
    /\ UNCHANGED <<config, repo, lineage, gens, disc, started, loaded, results, returned, idx, locals>>

\* ------------------------------------------------------ discover_documents
\* Lines 133-135: a caller that runs no sync iterates discover_documents
\* over one of the configured patterns.
DiscoverStart(r) ==
    /\ pc[r] = "idle"
    /\ disc[r].pc \in {"idle", "returned"}
    /\ \E i \in 1..Len(patterns) :
         disc' = [disc EXCEPT ![r] =
                    [pc |-> "scan", idx |-> i, gen |-> GenInit(patterns[i]),
                     consecutive_misses |-> 0, yielded |-> <<>>, trace |-> <<>>,
                     response |-> NoResponse]]
    /\ UNCHANGED <<config, repo, lineage, gens, state_file, clock, started, pc, state, loaded,
                   results, returned, idx, locals, writes>>

\* Lines 135-142: the next symbol is probed; a hit is yielded, a miss counts
\* and ends the generator at max_consecutive_misses.
DiscoverProbe(r) ==
    /\ disc[r].pc = "scan"
    /\ GenResume(patterns[disc[r].idx], <<>>, 0, disc[r].gen) = "yield"
    /\ LET d == disc[r]
           pat == patterns[d.idx]
           sym == GenYield(pat, d.gen)
       IN \E resp \in Responses(sym \in remote, flaky) :
            LET hit == document_exists(resp)
                tr == Append(d.trace, [symbol |-> sym, number |-> d.gen.number,
                                       hit |-> hit])
            IN disc' = [disc EXCEPT ![r] =
                 IF hit
                 THEN [d EXCEPT !.gen = GenAdvance(pat, d.gen),
                                !.consecutive_misses = 0,
                                !.yielded = Append(@, sym),
                                !.trace = tr,
                                !.response = resp]
                 ELSE [d EXCEPT !.gen = GenAdvance(pat, d.gen),
                                !.consecutive_misses = @ + 1,
                                !.trace = tr,
                                !.response = resp,
                                !.pc = IF ReachedLimit(d.consecutive_misses + 1,
                                                       max_consecutive_misses)
                                       THEN "stopped" ELSE "scan"]]
    /\ UNCHANGED <<config, repo, lineage, gens, state_file, clock, started, pc, state, loaded,
                   results, returned, idx, locals, writes>>

\* The caller drops the exhausted generator.
DiscoverReturn(r) ==
    /\ disc[r].pc = "stopped"
    /\ disc' = [disc EXCEPT ![r] = [NoDiscovery EXCEPT !.pc = "returned"]]
    /\ UNCHANGED <<config, repo, lineage, gens, state_file, clock, started, pc, state, loaded,
                   results, returned, idx, locals, writes>>

\* Line 236 with lines 65-71: the next() call behind the for loop of
\* sync_pattern does not come back; the while loop of generate_symbols runs
\* on over an empty product and yields nothing.
ScanHangs(r) ==
    /\ pc[r] = "scan"
    /\ GenResume(resume_pattern(r), <<>>, 0, gen[r]) = "diverge"
    /\ pc' = [pc EXCEPT ![r] = "hung"]
    /\ UNCHANGED <<config, repo, lineage, gens, disc, state_file, clock, started, state,
                   loaded, results, returned, idx, locals, writes>>

\* Line 135 with lines 65-71: the same inside discover_documents.
DiscoverHangs(r) ==
    /\ disc[r].pc = "scan"
    /\ GenResume(patterns[disc[r].idx], <<>>, 0, disc[r].gen) = "diverge"
    /\ disc' = [disc EXCEPT ![r].pc = "hung"]
    /\ UNCHANGED <<config, repo, lineage, gens, state_file, clock, started, pc, state,
                   loaded, results, returned, idx, locals, writes>>

\* ------------------------------------------------------------------- abort
\* The process is terminated from outside in the middle of a run.  During
\* save_sync_state the file keeps what had reached it by then.
Abort(r) ==
    /\ pc[r] \in {"loop", "scan", "download", "stopped", "writing"}
    /\ pc' = [pc EXCEPT ![r] = "aborted"]
    /\ IF pc[r] = "writing"
       THEN state_file' \in {FileWith(t) : t \in Prefixes(json_dump(state[r]))}
       ELSE UNCHANGED state_file
    /\ DropLocals(r)
    /\ UNCHANGED <<config, repo, lineage, gens, disc, clock, started, state, loaded,
                   results, returned, idx, writes>>

\* -------------------------------------------- generate_symbols, stand-alone
\* A caller calls generate_symbols(pattern, count) for the configured
\* pattern with some start and some count, and gets a suspended generator.
GenCall(i) ==
    /\ gens[i].pc = "idle"
    /\ \E st \in GenStarts, cnt \in GenCounts :
         gens' = [gens EXCEPT ![i] =
                    [pc |-> "suspended",
                     pattern |-> [patterns[1] EXCEPT !.start = st],
                     count |-> cnt, generated |-> 0,
                     g |-> GenInit([patterns[1] EXCEPT !.start = st]),
                     out |-> <<>>]]
    /\ UNCHANGED <<config, repo, lineage, state_file, clock, started, pc, state, loaded,
                   results, returned, idx, locals, disc, writes>>

\* The caller calls next() on the generator: lines 65-89 run to the next
\* yield, to the return, or never come back.
GenNext(i) ==
    /\ gens[i].pc = "suspended"
    /\ Len(gens[i].out) < MaxEmit
    /\ LET gn == gens[i]
           what == GenResume(gn.pattern, gn.count, gn.generated, gn.g)
       IN gens' = [gens EXCEPT ![i] =
            IF what = "yield"
            THEN [gn EXCEPT !.out = Append(@, GenYield(gn.pattern, gn.g)),
                            !.generated = @ + 1,
                            !.g = GenAdvance(gn.pattern, gn.g)]
            ELSE IF what = "return" THEN [gn EXCEPT !.pc = "returned"]
            ELSE [gn EXCEPT !.pc = "diverged"]]
    /\ UNCHANGED <<config, repo, lineage, state_file, clock, started, pc, state, loaded,
                   results, returned, idx, locals, disc, writes>>

NextGen == \E i \in GenIds : GenCall(i) \/ GenNext(i)

\* Callers iterating generate_symbols over one pattern.
InitGen ==
    /\ patterns \in {<<pat>> : pat \in GenPatterns}
    /\ remote = {}
    /\ flaky = FALSE
    /\ max_consecutive_misses = DefaultMaxMisses
    /\ InitProgram
    /\ NoLineage

SpecGen == InitGen /\ [][NextGen]_vars

\* ----------------------------------------------------------- link_documents
\* link_documents(documents, use_undl_metadata) is called, on the collection
\* as the last call left it or on the collection as it was ingested.
LinkStart ==
    /\ link.pc \in {"idle", "done"}
    /\ link.runs < MaxLinkRuns
    /\ \E flag \in BOOLEAN, input \in {documents, link.initial} :
         /\ documents' = input
         /\ link' = [link EXCEPT
                !.pc = IF NextResolution(input, 1) > Len(input) THEN "done" ELSE "pass0",
                !.i = NextResolution(input, 1),
                !.use_undl_metadata = flag,
                !.runs = @ + 1,
                !.before = input,
                !.calls = <<>>,
                !.prev = IF link.pc = "idle" THEN <<>>
                         ELSE << [before |-> link.before, after |-> documents,
                                  calls |-> link.calls,
                                  use_undl_metadata |-> link.use_undl_metadata] >>]
    /\ UNCHANGED <<config, repo, gens, state_file, clock, started, pc, state, loaded,
                   results, returned, idx, locals, disc, writes>>

\* The resolver moves on to the next resolution record, or returns.
Advance(lk, docs) ==
    [lk EXCEPT !.i = NextResolution(docs, lk.i + 1),
               !.pc = IF NextResolution(docs, lk.i + 1) > Len(docs)
                      THEN "done" ELSE "pass0"]

\* Pass 0 for the resolution at link.i: skipped for a resolution that is
\* already linked (the cascade is over for it) and when metadata is
\* disabled; otherwise the metadata is fetched and, when it has a base
\* proposal, the link is recorded and Pass 1 is not applied.
LinkPass0 ==
    /\ link.pc = "pass0"
    /\ LET doc == documents[link.i]
       IN IF AlreadyLinked(doc)
          THEN /\ link' = Advance(link, documents)
               /\ UNCHANGED documents
          ELSE IF ~Pass0Enabled(link.use_undl_metadata)
          THEN /\ link' = [link EXCEPT !.pc = "pass1"]
               /\ UNCHANGED documents
          ELSE \E outcome \in UndlOutcomes :
                 LET md == fetch_undl_metadata(outcome, doc.symbol)
                     called == [link EXCEPT !.calls =
                                   Append(@, [symbol |-> doc.symbol,
                                              outcome |-> outcome, metadata |-> md])]
                 IN IF Pass0Links(md)
                    THEN /\ documents' = RecordLink(documents, link.i,
                                                    md[1].base_proposal[1],
                                                    md[1].draft_symbols,
                                                    "undl_metadata", MetadataConfidence)
                         /\ link' = Advance(called, documents)
                    ELSE /\ link' = [called EXCEPT !.pc = "pass1"]
                         /\ UNCHANGED documents
    /\ UNCHANGED <<config, repo, gens, state_file, clock, started, pc, state, loaded,
                   results, returned, idx, locals, disc, writes>>

\* Pass 1 for the resolution at link.i: the first proposal among its
\* symbol_references becomes the base proposal.
LinkPass1 ==
    /\ link.pc = "pass1"
    /\ LET doc == documents[link.i]
           ref == FirstProposal(doc.symbol_references)
       IN /\ documents' = IF ref = <<>> THEN documents
                          ELSE RecordLink(documents, link.i, ref[1], ref,
                                          "symbol_reference", ReferenceConfidence)
          /\ link' = Advance(link, documents)
    /\ UNCHANGED <<config, repo, gens, state_file, clock, started, pc, state, loaded,
                   results, returned, idx, locals, disc, writes>>

NextLink == LinkStart \/ LinkPass0 \/ LinkPass1

\* link_documents called on an ingested collection.
InitLink ==
    /\ patterns = <<ResolutionPattern>>
    /\ remote = {}
    /\ flaky = FALSE
    /\ max_consecutive_misses = DefaultMaxMisses
    /\ InitProgram
    /\ documents \in Collections
    /\ link = [NoLink EXCEPT !.initial = documents]

SpecLink == InitLink /\ [][NextLink]_vars

Step(r) ==
    \/ StartRun(r)
    \/ EnterPattern(r)
    \/ Probe(r)
    \/ Download(r)
    \/ DownloadFails(r)
    \/ LeavePattern(r)
    \/ SaveOpen(r)
    \/ SaveDump(r)
    \/ SaveFails(r)
    \/ DiscoverStart(r)
    \/ DiscoverProbe(r)
    \/ DiscoverReturn(r)

Next == \E r \in Runs : Step(r)

Spec == Init /\ [][Next]_vars

\* Sync runs against a steady repository.
SpecSteady == InitSteady /\ [][Next]_vars

\* Sync runs that may be terminated from outside at any point.
NextCrash == \E r \in Runs : Step(r) \/ Abort(r)

SpecCrash == Init /\ [][NextCrash]_vars

\* The configurations of the scans whose end is looked at: value lists of
\* no, one, two and three values.
TermConfigs ==
    { <<ResolutionPattern>>, <<DraftPattern>>, <<CommitteePattern>>,
      <<EmptyListPattern>>, <<ResolutionPattern, EmptyListPattern>> }

\* Every limit from 1 on, with a repository that holds nothing or everything.
InitTerm ==
    /\ patterns \in TermConfigs
    /\ remote \in {{}, Universe}
    /\ flaky = FALSE
    /\ max_consecutive_misses \in 1..DefaultMaxMisses
    /\ InitProgram
    /\ NoLineage

NextTerm == \E r \in Runs : Step(r) \/ ScanHangs(r) \/ DiscoverHangs(r)

\* Sync runs and discoveries over patterns of every shape.
SpecTerm == InitTerm /\ [][NextTerm]_vars

\* The steady repositories of the recovery runs: nothing, everything, all
\* but the first sequence number of each pattern, and all but the first
\* symbol of each pattern.
SteadyRemotes ==
    { {}, Universe,
      Universe \ UNION { SymbolsAt(pat, PatternStart(pat)) :
                            pat \in {ResolutionPattern, DraftPattern} },
      Universe \ { GenYield(pat, GenInit(pat)) :
                      pat \in {ResolutionPattern, DraftPattern} } }

InitRecover ==
    /\ patterns \in Configs
    /\ remote \in SteadyRemotes
    /\ flaky = FALSE
    /\ max_consecutive_misses \in MissChoices
    /\ InitProgram
    /\ NoLineage

\* Sync runs against a steady repository that may be terminated from outside.
SpecRecover == InitRecover /\ [][NextCrash]_vars

\* State files left by runs under an earlier configuration, which had the
\* committee pattern: its entry alone, and with entries of the other two
\* patterns before or after it.
EarlierStates ==
    { [patterns |-> <<[key |-> CommitteePattern.name, value |-> [highest_found |-> 4]]>>,
       last_sync |-> <<0>>],
      [patterns |-> <<[key |-> CommitteePattern.name, value |-> [highest_found |-> 4]],
                      [key |-> ResolutionPattern.name, value |-> [highest_found |-> 1]],
                      [key |-> DraftPattern.name, value |-> [highest_found |-> 1]]>>,
       last_sync |-> <<0>>],
      [patterns |-> <<[key |-> DraftPattern.name, value |-> [highest_found |-> 2]],
                      [key |-> CommitteePattern.name, value |-> [highest_found |-> 0]]>>,
       last_sync |-> <<0>>] }

\* The configuration has changed since the state file was written.
InitRetired ==
    /\ patterns \in Configs
    /\ remote \in SteadyRemotes
    /\ flaky = FALSE
    /\ max_consecutive_misses \in MissChoices
    /\ \E st \in EarlierStates : InitProgramWith(FileWith(json_dump(st)))
    /\ NoLineage

\* Sync runs over a state file with entries of patterns no longer configured.
SpecRetired == InitRetired /\ [][Next]_vars

\* Two processes on the same data directory, one pattern, requests that can
\* fail.
InitOverlap ==
    /\ patterns = <<ResolutionPattern>>
    /\ remote = Universe
    /\ flaky = TRUE
    /\ max_consecutive_misses = 2
    /\ InitProgram
    /\ NoLineage

\* Either process takes its next step: the runs overlap in any way.
NextOverlap == \E r \in AllRuns : Step(r)

SpecOverlap == InitOverlap /\ [][NextOverlap]_vars

\* ================================================================ properties
\* What the next run would read from state.json.
Persisted == load_sync_state(state_file)

PatternNames == {patterns[i].name : i \in 1..Len(patterns)}

\* C1: Monotonicity.  When a sync run has completed, the highest_found
\* persisted for every pattern that had a value before the run is at least
\* that earlier value.
C1_Monotonic ==
    \A r \in AllRuns :
        pc[r] = "done" =>
            /\ CanLoad(state_file)
            /\ \A name \in DictKeys(loaded[r].patterns) :
                  /\ HasHighest(Persisted, name)
                  /\ HighestOf(Persisted, name) >= HighestOf(loaded[r], name)

\* A completed run that resumed a pattern with no hit, and one that raised it.
C1_Witness ==
    \E r \in AllRuns :
        /\ pc[r] = "done"
        /\ \E name \in DictKeys(loaded[r].patterns) :
              /\ HighestOf(Persisted, name) = HighestOf(loaded[r], name)
              /\ HighestOf(loaded[r], name) > PatternStart(ResolutionPattern)
        /\ \E name \in DictKeys(loaded[r].patterns) :
              HighestOf(Persisted, name) > HighestOf(loaded[r], name)

\* C2: Idempotence.  When a run completes after an earlier completed run,
\* every probe having been answered by the same remote set, the later run
\* reports no new document for any pattern and persists the
\* highest_found the earlier run wrote.
C2_Idempotent ==
    \A r \in AllRuns :
        (pc[r] = "done" /\ ~flaky
            /\ PatternNames \subseteq DictKeys(loaded[r].patterns)) =>
            \A name \in PatternNames :
                /\ DictGet(results[r], name, <<>>) = <<>>
                /\ HighestOf(Persisted, name) = HighestOf(loaded[r], name)

\* The sequence number of the last hit of a scan.
LastHitNumber(tr) ==
    LET hits == {k \in 1..Len(tr) : tr[k].hit}
    IN tr[CHOOSE k \in hits : \A j \in hits : j <= k].number

\* C3: The highest_found recorded on a hit is the sequence number of the
\* symbol that hit (the value substituted for {number}), not the position of
\* the symbol in the emitted sequence.
C3_SequenceNumber ==
    \A r \in AllRuns :
        (pc[r] \in {"scan", "stopped"} /\ new_docs[r] # <<>>) =>
            highest_found[r] = LastHitNumber(trace[r])

\* The probes of a scan made at one sequence number.
ProbedAt(tr, n) == {k \in 1..Len(tr) : tr[k].number = n}

\* C4: When a scan has stopped, every symbol of the last sequence number it
\* probed has been probed, and a highest_found the scan raised is a number
\* of which at least one symbol hit.
C4_WholeNumbers ==
    \A r \in AllRuns :
        pc[r] = "stopped" =>
            /\ Cardinality(ProbedAt(trace[r], trace[r][Len(trace[r])].number))
                  = Len(Combos(pattern(r)))
            /\ new_docs[r] # <<>> =>
                  \E k \in 1..Len(trace[r]) :
                      trace[r][k].hit /\ trace[r][k].number = highest_found[r]

AllMiss(tr) == \A k \in 1..Len(tr) : ~tr[k].hit

\* The scan of sync_pattern (r) and of discover_documents (r): its pattern,
\* the number it started at, whether it has stopped, and its probes.
SyncScanning(r) == pc[r] \in {"scan", "download", "stopped"}
DiscScanning(r) == disc[r].pc \in {"scan", "stopped"}

C6_ResumePoint ==
    \A r \in AllRuns :
        (SyncScanning(r) /\ trace[r] # <<>>) =>
            trace[r][1].number =
                IF HasHighest(loaded[r], pattern(r).name)
                THEN HighestOf(loaded[r], pattern(r).name) + 1
                ELSE PatternStart(pattern(r))

\* A first probe of a resumed pattern, away from pattern.start.
C6_Witness ==
    \E r \in AllRuns :
        /\ SyncScanning(r)
        /\ Len(trace[r]) = 1
        /\ HasHighest(loaded[r], pattern(r).name)
        /\ trace[r][1].number > PatternStart(pattern(r)) + 1

\* C7: Gaps are never retried.  No probe and no download of a run is for a
\* sequence number at or below the highest_found that was persisted for the
\* pattern when the run started.
C7_NoRetry ==
    \A r \in AllRuns :
        (SyncScanning(r) /\ HasHighest(loaded[r], pattern(r).name)) =>
            /\ \A k \in 1..Len(trace[r]) :
                  trace[r][k].number > HighestOf(loaded[r], pattern(r).name)
            /\ \A k \in 1..Len(downloaded[r]) :
                  \E j \in 1..Len(trace[r]) :
                      /\ trace[r][j].symbol = downloaded[r][k]
                      /\ trace[r][j].number > HighestOf(loaded[r], pattern(r).name)

\* A scan resumed after an earlier run's hit that downloads a document.
C7_Witness ==
    \E r \in AllRuns :
        /\ SyncScanning(r)
        /\ HasHighest(loaded[r], pattern(r).name)
        /\ downloaded[r] # <<>>
        /\ HighestOf(loaded[r], pattern(r).name) >= PatternStart(pattern(r))

\* C8: In a run the state file is written by one call of save_sync_state,
\* made after every configured pattern has finished; while patterns are
\* being scanned the file is as it was loaded.
C8_SingleWrite ==
    \A r \in Runs :
        /\ pc[r] \in {"loop", "scan", "download", "stopped"} =>
              /\ writes[r] = 0
              /\ Persisted = loaded[r]
        /\ pc[r] \in {"writing", "done"} =>
              /\ writes[r] = 1
              /\ DictKeys(results[r]) = PatternNames
        /\ pc[r] = "done" => state_file = FileWith(json_dump(state[r]))

\* A completed run over two patterns.
C8_Witness ==
    \E r \in Runs :
        /\ pc[r] = "done"
        /\ Len(patterns) = 2
        /\ writes[r] = 1
        /\ \A i \in 1..Len(results[r]) : results[r][i].value # <<>>

\* C9: The state write is atomic.  After a run was terminated, state.json is
\* readable and holds either the state from before the run or the complete
\* state of the run.
C9_AtomicWrite ==
    \A r \in AllRuns :
        pc[r] = "aborted" =>
            /\ CanLoad(state_file)
            /\ \/ Persisted = loaded[r]
               \/ state_file = FileWith(json_dump(state[r]))

\* The scan of one pattern as a function of that pattern's inputs alone: the
\* pattern, its own persisted entry (<<>> or <<h>>), the miss limit and the
\* answers to its probes in probe order.  It yields the symbols probed, the
\* new documents, the new highest_found, and whether the scan has stopped.
RECURSIVE ScanAlone(_, _, _, _, _, _, _, _)
ScanAlone(pat, g, limit, answers, k, misses, cur, acc) ==
    IF k > Len(answers) THEN acc
    ELSE LET sym == GenYield(pat, g)
             probed == Append(acc.symbols, sym)
         IN IF answers[k]
            THEN ScanAlone(pat, GenAdvance(pat, g), limit, answers, k + 1, 0, cur + 1,
                           [acc EXCEPT !.symbols = probed,
                                       !.docs = Append(@, sym),
                                       !.highest = cur])
            ELSE IF misses + 1 >= limit
                 THEN [acc EXCEPT !.symbols = probed, !.stopped = TRUE]
                 ELSE ScanAlone(pat, GenAdvance(pat, g), limit, answers, k + 1,
                                misses + 1, cur + 1, [acc EXCEPT !.symbols = probed])

SyncAlone(pat, entry, limit, answers) ==
    LET first == IF entry = <<>> THEN PatternStart(pat) ELSE entry[1] + 1
        before == IF entry = <<>> THEN PatternStart(pat) - 1 ELSE entry[1]
    IN ScanAlone(WithStart(pat, first), [number |-> first, combo |-> 1], limit,
                 answers, 1, 0, first,
                 [symbols |-> <<>>, docs |-> <<>>, highest |-> before,
                  stopped |-> FALSE])

\* The entry persisted for the pattern being scanned when the run started.
OwnEntry(r) ==
    IF HasHighest(loaded[r], pattern(r).name)
    THEN <<HighestOf(loaded[r], pattern(r).name)>>
    ELSE <<>>

\* C10: Pattern independence.  What a stopped scan has probed, found and
\* computed as highest_found is what the pattern's own definition, own
\* persisted entry and the answers to its own probes give, whichever other
\* patterns the run has, in whichever order, and whatever they found.
C10_Independent ==
    \A r \in AllRuns :
        pc[r] = "stopped" =>
            LET alone == SyncAlone(pattern(r), OwnEntry(r), max_consecutive_misses,
                                   [k \in 1..Len(trace[r]) |-> trace[r][k].hit])
            IN /\ alone.stopped
               /\ alone.symbols = [k \in 1..Len(trace[r]) |-> trace[r][k].symbol]
               /\ alone.docs = new_docs[r]
               /\ alone.highest = highest_found[r]

\* The second pattern of a run stops with documents found, after a first
\* pattern that found documents too.
C10_Witness ==
    \E r \in AllRuns :
        /\ pc[r] = "stopped"
        /\ idx[r] = 2
        /\ results[r][1].value # <<>>
        /\ new_docs[r] # <<>>

\* The number of misses at the end of a scan's probes.
RECURSIVE TrailingMisses(_)
TrailingMisses(tr) ==
    IF tr = <<>> \/ tr[Len(tr)].hit THEN 0
    ELSE 1 + TrailingMisses(SubSeq(tr, 1, Len(tr) - 1))

\* A response with status 200 whose content type names a PDF.
PdfResponse(resp) ==
    /\ ~resp.raised
    /\ resp.status = 200
    /\ resp.content_type \in {"application/pdf", "Application/PDF"}

\* C11: The probe answers true exactly for a response with status 200 and a
\* PDF content type.  After every other outcome (another status, a 200 with
\* another content type, a timeout or connection failure) the scan goes on
\* as after a miss: the outcome has added one to the miss counter, and the
\* scan has continued or stopped on the limit, with nothing yielded or
\* downloaded for the symbol.
C11_ProbeOutcome ==
    \A r \in AllRuns :
        /\ (SyncScanning(r) /\ trace[r] # <<>>) =>
              LET last == trace[r][Len(trace[r])]
              IN /\ last.hit <=> PdfResponse(response[r])
                 /\ consecutive_misses[r] = TrailingMisses(trace[r])
                 /\ ~last.hit =>
                       /\ consecutive_misses[r] >= 1
                       /\ pc[r] \in {"scan", "stopped"}
                       /\ \A k \in 1..Len(downloaded[r]) : downloaded[r][k] # last.symbol
        /\ (DiscScanning(r) /\ disc[r].trace # <<>>) =>
              LET last == disc[r].trace[Len(disc[r].trace)]
              IN /\ last.hit <=> PdfResponse(disc[r].response)
                 /\ disc[r].consecutive_misses = TrailingMisses(disc[r].trace)
                 /\ ~last.hit =>
                       \A k \in 1..Len(disc[r].yielded) : disc[r].yielded[k] # last.symbol

\* A scan whose second consecutive miss was a failed request, after a hit.
C11_Witness ==
    \E r \in AllRuns :
        /\ SyncScanning(r)
        /\ response[r] = RequestException
        /\ consecutive_misses[r] = 2
        /\ new_docs[r] # <<>>

\* C12: A failed state write is fatal and visible.  A run whose
\* save_sync_state failed has raised and returned nothing; a run that has
\* returned per-pattern results has returned them after the state file was
\* written in full with the run's state.
C12_FailedWriteRaises ==
    \A r \in AllRuns :
        /\ (writes[r] >= 1 /\ state_file # FileWith(json_dump(state[r]))) =>
              /\ returned[r] = <<>>
              /\ pc[r] # "done"
        /\ returned[r] # <<>> =>
              /\ pc[r] = "done"
              /\ returned[r][1] = results[r]
              /\ state_file = FileWith(json_dump(state[r]))

\* A run that found documents and whose state write failed, leaving the
\* state file as it was before the run.
C12_Witness ==
    \E r \in AllRuns :
        /\ pc[r] = "failed"
        /\ writes[r] = 1
        /\ \E i \in 1..Len(results[r]) : results[r][i].value # <<>>
        /\ Persisted = loaded[r]
        /\ returned[r] = <<>>

\* ---------------------------------------------- generate_symbols properties
\* The number of tuples of a pattern's list variables from the j-th on.
RECURSIVE Tuples(_, _)
Tuples(lv, j) == IF j > Len(lv) THEN 1 ELSE Len(lv[j].value) * Tuples(lv, j + 1)

\* The value of list variable key in the t-th tuple (t from 0) when tuples
\* are ordered by the declaration order of the variables and then by the
\* declaration order of each variable's values.
TupleValue(pat, key, t) ==
    LET lv == list_vars(pat)
        j == CHOOSE j \in 1..Len(lv) : lv[j].key = key
    IN lv[j].value[((t \div Tuples(lv, j + 1)) % Len(lv[j].value)) + 1]

\* The symbol of each pattern for a sequence number and a tuple, written out.
Expected(pat, n, t) ==
    CASE pat.name = "resolutions" -> "A/RES/80/" \o ToString(n)
      [] pat.name = "drafts" -> "A/" \o ToString(n) \o "/" \o TupleValue(pat, "track", t)
      [] pat.name = "committees" ->
            "A/C." \o TupleValue(pat, "committee", t) \o "/80/L." \o ToString(n)
      [] pat.name = "bodies" ->
            TupleValue(pat, "body", t) \o "/" \o ToString(n) \o "/"
                \o TupleValue(pat, "track", t)
      [] OTHER -> ""

\* C13: Cartesian ordering.  The m-th symbol a generator has emitted is the
\* symbol of sequence number start + (m - 1) \div P and of tuple
\* (m - 1) % P of the Cartesian product, P being the number of tuples, with
\* tuples ordered by declaration order of the variables and then of the
\* values: all tuples of a number come before any symbol of the next.  For
\* start 5 and track [L, M] the first four symbols are A/5/L, A/5/M, A/6/L,
\* A/6/M.
C13_CartesianOrder ==
    \A i \in GenIds :
        LET gn == gens[i]
            P == Tuples(list_vars(gn.pattern), 1)
        IN /\ \A m \in 1..Len(gn.out) :
                 /\ P > 0
                 /\ gn.out[m] = Expected(gn.pattern,
                                         PatternStart(gn.pattern) + ((m - 1) \div P),
                                         (m - 1) % P)
           /\ (gn.pattern.name = "drafts" /\ gn.pattern.start = <<5>>
                  /\ Len(gn.out) >= 4) =>
                 SubSeq(gn.out, 1, 4) = <<"A/5/L", "A/5/M", "A/6/L", "A/6/M">>

\* Four symbols taken from the two-list pattern, and as many from start 5
\* of the same pattern.
C13_Witness ==
    /\ Len(gens[1].out) = 4
    /\ gens[1].pattern.name = "bodies"
    /\ Len(list_vars(gens[1].pattern)) = 2
    /\ Len(gens[2].out) = 4
    /\ gens[2].pattern.start = <<5>>

\* C14: Restartability.  Of two generators of the same pattern made with
\* starts s and s + k, the second emits what the first emits after the
\* symbols of its first k sequence numbers (k times the number of tuples),
\* whatever the order in which the two generators are made and advanced.
C14_Restartable ==
    \A i, j \in GenIds :
        LET a == gens[i]
            b == gens[j]
            k == PatternStart(b.pattern) - PatternStart(a.pattern)
            P == Tuples(list_vars(a.pattern), 1)
        IN (a.pc # "idle" /\ b.pc # "idle" /\ k >= 0) =>
              \A m \in 1..Len(b.out) :
                  k * P + m <= Len(a.out) => b.out[m] = a.out[k * P + m]

\* A generator started one number after another, both of a list pattern,
\* the first advanced into the numbers of the second.
C14_Witness ==
    \E i, j \in GenIds :
        /\ PatternStart(gens[j].pattern) = PatternStart(gens[i].pattern) + 1
        /\ Len(list_vars(gens[i].pattern)) = 1
        /\ Len(gens[i].out) = 4
        /\ Len(gens[j].out) >= 2
        /\ gens[j].out[2] = gens[i].out[4]

\* C15: generate_symbols with a limit is finite.  A generator made with a
\* count n never runs on without returning, has emitted at most n symbols,
\* returns at the next() call after its n-th symbol and not before, and what
\* it has emitted is what a generator without count emits for the same
\* pattern and start.
C15_FiniteWithLimit ==
    \A i \in GenIds :
        LET gn == gens[i]
        IN (gn.pc # "idle" /\ gn.count # <<>>) =>
              /\ gn.pc # "diverged"
              /\ Len(gn.out) <= gn.count[1]
              /\ gn.pc = "returned" => Len(gn.out) = gn.count[1]
              /\ \A j \in GenIds :
                    (gens[j].pc # "idle" /\ gens[j].count = <<>>
                        /\ gens[j].pattern = gn.pattern) =>
                        \A m \in 1..Len(gn.out) :
                            m <= Len(gens[j].out) => gn.out[m] = gens[j].out[m]

\* ------------------------------------------------------- lineage properties
\* The resolver has finished with the record at position j in this call.
Processed(j) == link.pc = "done" \/ (link.pc \in {"pass0", "pass1"} /\ link.i > j)

\* The resolution record the resolver finished last.
LastProcessed(j) ==
    /\ Processed(j)
    /\ is_resolution(documents[j].symbol)
    /\ \A k \in (j + 1)..Len(documents) :
          is_resolution(documents[k].symbol) => ~Processed(k)

\* The record has an entry in linked_proposal_symbols or a
\* base_proposal_symbol.
WasLinked(doc) == doc.linked_proposal_symbols # <<>> \/ doc.base_proposal_symbol # <<>>

\* The earliest of the references that is a proposal symbol, as <<symbol>>,
\* or <<>> when none is.
EarliestProposal(refs) ==
    LET at == {p \in 1..Len(refs) : refs[p] \in ProposalSymbols}
    IN IF at = {} THEN <<>> ELSE <<refs[CHOOSE p \in at : \A q \in at : p <= q]>>

\* The metadata calls of this call of link_documents made for a symbol.
CallsFor(sym) == {k \in 1..Len(link.calls) : link.calls[k].symbol = sym}

\* The metadata client has returned draft symbols for the symbol.
GotDrafts(sym) ==
    \E k \in CallsFor(sym) :
        /\ link.calls[k].metadata # <<>>
        /\ link.calls[k].metadata[1].draft_symbols # <<>>

\* C16: Lineage priority.  A resolution for which the metadata client has
\* returned draft symbols has link_method = undl_metadata, link_confidence
\* 1.0 and the first metadata draft as base_proposal_symbol, from the call on
\* to the end of link_documents, also when its symbol_references contain a
\* proposal: Pass 1 does not override it.
C16_MetadataFirst ==
    \A j \in 1..Len(documents) :
        \A k \in CallsFor(documents[j].symbol) :
            LET md == link.calls[k].metadata
            IN (md # <<>> /\ md[1].draft_symbols # <<>>) =>
                  /\ documents[j].link_method = "undl_metadata"
                  /\ documents[j].link_confidence = 100
                  /\ documents[j].base_proposal_symbol = <<md[1].draft_symbols[1]>>

\* link_documents has returned, having got drafts for a resolution whose
\* references name another proposal, held in the collection.
C16_Witness ==
    /\ link.pc = "done"
    /\ \E j \in 1..Len(documents) :
          /\ GotDrafts(documents[j].symbol)
          /\ EarliestProposal(documents[j].symbol_references) # <<>>
          /\ EarliestProposal(documents[j].symbol_references)
                # documents[j].base_proposal_symbol
          /\ IsLocal(documents, EarliestProposal(documents[j].symbol_references)[1])

AllAbsent(calls) == \A k \in 1..Len(calls) : calls[k].metadata = <<>>

\* C18: Disabled-metadata mode.  A call of link_documents with
\* use_undl_metadata = False makes no metadata call, and leaves every record
\* as a call with metadata enabled leaves it on the same collection when
\* every fetch returns absent.
C18_DisabledMode ==
    /\ ~link.use_undl_metadata => link.calls = <<>>
    /\ (link.pc = "done" /\ link.prev # <<>> /\ link.prev[1].before = link.before) =>
          /\ (~link.use_undl_metadata /\ link.prev[1].use_undl_metadata
                 /\ AllAbsent(link.prev[1].calls)) => documents = link.prev[1].after
          /\ (link.use_undl_metadata /\ ~link.prev[1].use_undl_metadata
                 /\ AllAbsent(link.calls)) => documents = link.prev[1].after

\* A disabled call that linked by symbol reference, after an enabled call
\* on the same collection whose fetches failed.
C18_Witness ==
    /\ link.pc = "done"
    /\ ~link.use_undl_metadata
    /\ link.prev # <<>>
    /\ link.prev[1].before = link.before
    /\ link.prev[1].use_undl_metadata
    /\ link.prev[1].calls # <<>>
    /\ AllAbsent(link.prev[1].calls)
    /\ \E j \in 1..Len(documents) : documents[j].link_method = "symbol_reference"
    /\ documents # link.before

\* The metadata answers of this call are those of the previous call, symbol
\* by symbol.
SameAnswers ==
    \A k \in 1..Len(link.calls) :
        \E m \in 1..Len(link.prev[1].calls) :
            /\ link.prev[1].calls[m].symbol = link.calls[k].symbol
            /\ link.prev[1].calls[m].metadata = link.calls[k].metadata

C20_PartialLink ==
    \A j \in 1..Len(documents) :
        \A k \in CallsFor(documents[j].symbol) :
            LET md == link.calls[k].metadata
            IN (md # <<>> /\ md[1].base_proposal # <<>>
                   /\ Held(documents, md[1].draft_symbols) = <<>>) =>
                  /\ documents[j].base_proposal_symbol = md[1].base_proposal
                  /\ documents[j].link_method = "undl_metadata"
                  /\ documents[j].linked_proposal_symbols = <<>>
                  /\ \A p \in 1..Len(documents) :
                        documents[p].linked_resolution_symbol = <<documents[j].symbol>>
                            => documents[p] = link.before[p]

\* link_documents has returned after such a metadata answer for a
\* resolution whose references name a proposal held in the collection.
C20_Witness ==
    /\ link.pc = "done"
    /\ \E j \in 1..Len(documents) :
          /\ GotDrafts(documents[j].symbol)
          /\ documents[j].linked_proposal_symbols = <<>>
          /\ documents[j].base_proposal_symbol # <<>>
          /\ EarliestProposal(documents[j].symbol_references) # <<>>
          /\ IsLocal(documents, EarliestProposal(documents[j].symbol_references)[1])

\* The kinds of outcome of the remote call that carry no record of the symbol.
FailureKinds ==
    {"connection_error", "timeout", "http_error", "malformed_xml", "no_record"}

\* C21: Metadata fetch is total.  After a connection failure, a timeout, a
\* non-success status, malformed XML or a collection without a record of the
\* symbol, fetch_undl_metadata has returned absent and link_documents has
\* gone on: the resolution is in Pass 1 or has had it (symbol_reference
\* when its references name a proposal, untouched otherwise), and when
\* link_documents has returned every resolution that was not linked before
\* has been asked for.
C21_FetchTotal ==
    /\ \A k \in 1..Len(link.calls) :
          link.calls[k].outcome.kind \in FailureKinds =>
              /\ link.calls[k].metadata = <<>>
              /\ \A j \in 1..Len(documents) :
                    documents[j].symbol = link.calls[k].symbol =>
                        \/ link.pc = "pass1" /\ link.i = j
                                             /\ documents[j] = link.before[j]
                        \/ /\ Processed(j)
                           /\ IF EarliestProposal(link.before[j].symbol_references) = <<>>
                              THEN documents[j] = link.before[j]
                              ELSE documents[j].link_method = "symbol_reference"
    /\ (link.pc = "done" /\ link.use_undl_metadata) =>
          \A j \in 1..Len(documents) :
              (is_resolution(link.before[j].symbol) /\ ~WasLinked(link.before[j])) =>
                  CallsFor(link.before[j].symbol) # {}

\* link_documents has returned after a timeout for the first of two
\* resolutions, which Pass 1 linked, and malformed XML for the second.
C21_Witness ==
    /\ link.pc = "done"
    /\ Len(link.calls) = 2
    /\ link.calls[1].outcome.kind = "timeout"
    /\ link.calls[2].outcome.kind = "malformed_xml"
    /\ \E j \in 1..Len(documents) :
          /\ documents[j].symbol = link.calls[1].symbol
          /\ documents[j].link_method = "symbol_reference"

\* C22: Symmetric linkage.  When link_documents has returned, for every
\* resolution R and every proposal P of the collection, P is in
\* R.linked_proposal_symbols exactly when P.linked_resolution_symbol is
\* R.symbol.
C22_Symmetric ==
    link.pc = "done" =>
        \A r, p \in 1..Len(documents) :
            (is_resolution(documents[r].symbol) /\ is_proposal(documents[p].symbol)) =>
                ((\E k \in 1..Len(documents[r].linked_proposal_symbols) :
                      documents[r].linked_proposal_symbols[k] = documents[p].symbol)
                 <=> documents[p].linked_resolution_symbol = <<documents[r].symbol>>)

StopsOnLimit(tr, counter, stopped, limit) ==
    /\ counter = TrailingMisses(tr)
    /\ stopped <=> TrailingMisses(tr) = limit
    /\ \A k \in 0..(Len(tr) - 1) : TrailingMisses(SubSeq(tr, 1, k)) < limit

\* C24: Consecutive-miss counter.  In sync_pattern and discover_documents
\* the counter is the number of misses since the last hit (a hit resets it
\* to 0, a miss adds 1); the scan stops at the first miss that brings it to
\* max_consecutive_misses, makes no probe after that, and does not stop
\* while fewer misses have occurred since the last hit.
C24_MissCounter ==
    \A r \in AllRuns :
        /\ SyncScanning(r) =>
              StopsOnLimit(trace[r], consecutive_misses[r], pc[r] = "stopped",
                           max_consecutive_misses)
        /\ DiscScanning(r) =>
              StopsOnLimit(disc[r].trace, disc[r].consecutive_misses,
                           disc[r].pc = "stopped", max_consecutive_misses)

\* A scan that stopped on the limit after a miss, then a hit that reset the
\* counter.
C24_Witness ==
    \E r \in AllRuns :
        /\ pc[r] = "stopped"
        /\ \E k \in 2..Len(trace[r]) : trace[r][k].hit /\ ~trace[r][k - 1].hit
        /\ consecutive_misses[r] = max_consecutive_misses

\* C25: Termination of discovery.  For every pattern, whatever the length
\* of its value lists, and every max_consecutive_misses >= 1, a scan over a
\* finite repository reaches its stopped state and returns: sync_pattern and
\* discover_documents are never inside a next() call that does not return.
C25_ScanTerminates ==
    \A r \in AllRuns : pc[r] # "hung" /\ disc[r].pc # "hung"

\* What an uninterrupted scan of the pattern leaves as highest_found against
\* the repository rem, from the generator position g, the miss counter, the
\* cursor cur and the highest_found so far.
RECURSIVE ScanRemote(_, _, _, _, _, _, _)
ScanRemote(pat, rem, limit, g, misses, cur, highest) ==
    IF GenYield(pat, g) \in rem
    THEN ScanRemote(pat, rem, limit, GenAdvance(pat, g), 0, cur + 1, cur)
    ELSE IF misses + 1 >= limit THEN highest
    ELSE ScanRemote(pat, rem, limit, GenAdvance(pat, g), misses + 1, cur + 1, highest)

\* The highest_found an uninterrupted run that loaded st persists for pat.
UninterruptedHighest(pat, st, rem, limit) ==
    LET known == DictHas(st.patterns, pat.name)
        prior == DictGet(st.patterns, pat.name, [highest_found |-> 0]).highest_found
        first == IF known THEN prior + 1 ELSE PatternStart(pat)
        resume == WithStart(pat, first)
    IN ScanRemote(resume, rem, limit, [number |-> first, combo |-> 1], 0, first,
                  IF known THEN prior ELSE PatternStart(pat) - 1)

\* C26: Abort recovery.  While a run is before its state write, and after it
\* was terminated or a download raised there, the persisted state is the
\* state from before the run; and a complete run against the same steady
\* repository, whatever was aborted before it, persists for every pattern
\* the highest_found an uninterrupted run from the state it loaded leaves.
C26_AbortRecovery ==
    \A r \in AllRuns :
        /\ (pc[r] \in {"loop", "scan", "download", "stopped"} /\ writes[r] = 0) =>
              Persisted = loaded[r]
        /\ (pc[r] \in {"aborted", "failed"} /\ writes[r] = 0 /\ CanLoad(state_file)) =>
              Persisted = loaded[r]
        /\ pc[r] \in {"loop", "scan", "download", "stopped"} => writes[r] = 0
        /\ pc[r] = "done" =>
              \A i \in 1..Len(patterns) :
                  /\ HasHighest(Persisted, patterns[i].name)
                  /\ HighestOf(Persisted, patterns[i].name)
                        = UninterruptedHighest(patterns[i], loaded[r], remote,
                                               max_consecutive_misses)

\* A second run that completed and found documents after the first run had
\* ended before any save: the clock of the saves had not moved and no state
\* file was there.
C26_Witness ==
    \E r \in AllRuns :
        /\ pc[r] = "done"
        /\ started = 2
        /\ state[r].last_sync = <<1>>
        /\ loaded[r] = EmptyState
        /\ \E i \in 1..Len(patterns) :
              HighestOf(Persisted, patterns[i].name) >= PatternStart(patterns[i])

\* The symbols of the probes that answered true, in probe order.
RECURSIVE HitSymbols(_)
HitSymbols(tr) ==
    IF tr = <<>> THEN <<>>
    ELSE IF Head(tr).hit THEN <<Head(tr).symbol>> \o HitSymbols(Tail(tr))
    ELSE HitSymbols(Tail(tr))

PriorHighest(pat, st) ==
    IF DictHas(st.patterns, pat.name)
    THEN DictGet(st.patterns, pat.name, [highest_found |-> 0]).highest_found
    ELSE PatternStart(pat) - 1

\* C28: A run in which a pattern has no hit leaves the pattern's persisted
\* highest_found at its prior value, and persists pattern.start - 1 when
\* the pattern had no entry (the entry is not left absent); a run that loads
\* that entry starts its scan at pattern.start again.
C28_NoHitKeeps ==
    \A r \in AllRuns :
        /\ (pc[r] = "stopped" /\ AllMiss(trace[r])) =>
              highest_found[r] = PriorHighest(pattern(r), loaded[r])
        /\ pc[r] = "done" =>
              \A i \in 1..Len(patterns) :
                  DictGet(results[r], patterns[i].name, <<>>) = <<>> =>
                      /\ DictHas(Persisted.patterns, patterns[i].name)
                      /\ HighestOf(Persisted, patterns[i].name)
                            = PriorHighest(patterns[i], loaded[r])
        /\ (SyncScanning(r) /\ trace[r] # <<>>
                /\ DictHas(loaded[r].patterns, pattern(r).name)
                /\ HighestOf(loaded[r], pattern(r).name) = PatternStart(pattern(r)) - 1) =>
              trace[r][1].number = PatternStart(pattern(r))

\* A second run without a hit for a pattern that starts at 2: the first run
\* had found nothing either and had persisted 1, which the second run kept.
C28_Witness ==
    \E r \in AllRuns :
        /\ pc[r] = "done"
        /\ started = 2
        /\ DictHas(loaded[r].patterns, DraftPattern.name)
        /\ HighestOf(loaded[r], DraftPattern.name) = 1
        /\ DictHas(results[r], DraftPattern.name)
        /\ DictGet(results[r], DraftPattern.name, <<>>) = <<>>
        /\ HighestOf(Persisted, DraftPattern.name) = 1

\* C29: A sync run changes in the persisted state only the highest_found of
\* the configured patterns and last_sync: the saved file has the entries
\* of the loaded file and of the configured patterns and no other, and the
\* entry of every name that is not configured is as it was loaded.
C29_RetiredKept ==
    \A r \in AllRuns :
        pc[r] = "done" =>
            /\ DictKeys(Persisted.patterns) = DictKeys(loaded[r].patterns) \cup PatternNames
            /\ \A name \in DictKeys(loaded[r].patterns) \ PatternNames :
                  DictGet(Persisted.patterns, name, <<>>)
                      = DictGet(loaded[r].patterns, name, <<>>)
            /\ Persisted.last_sync = state[r].last_sync

\* A run that raised the highest_found of a configured pattern over a file
\* that also held the entry of the committee pattern, which is not configured.
C29_Witness ==
    \E r \in AllRuns :
        /\ pc[r] = "done"
        /\ CommitteePattern.name \notin PatternNames
        /\ DictHas(loaded[r].patterns, CommitteePattern.name)
        /\ HighestOf(Persisted, CommitteePattern.name) = 4
        /\ \E i \in 1..Len(patterns) :
              /\ DictHas(loaded[r].patterns, patterns[i].name)
              /\ HighestOf(Persisted, patterns[i].name)
                    > HighestOf(loaded[r], patterns[i].name)

\* C30: Overlapping runs.  When a run completes its write of the state file
\* after another run, which it overlapped or followed, has completed its
\* own, the highest_found it writes for a pattern is not lower than the one
\* the other run wrote.
C30_OverlapMonotonic ==
    [][\A r, q \in AllRuns :
          (r # q /\ pc[r] = "writing" /\ pc'[r] = "done" /\ pc[q] = "done") =>
              \A name \in PatternNames :
                  HighestOf(load_sync_state(state_file'), name)
                      >= HighestOf(state[q], name)]_vars
====
